---- MODULE Spec2Model ----
(***************************************************************************)
(* Model of scabha's {}-substitution engine (scabha/substitutions.py) and  *)
(* of its parameter validator (scabha/validate.py).                        *)
(*                                                                         *)
(* Strings are sequences of one-character strings, so that brace           *)
(* protection, str.format and brace finalisation are computed character by *)
(* character.  Namespace objects live in a heap (a sequence of nodes       *)
(* addressed by their index), so that copy(), shallow sharing of children  *)
(* and in-place updates of _forgave_ behave as in Python.                  *)
(***************************************************************************)
EXTENDS Integers, Sequences, FiniteSets, TLC

VARIABLES
    heap,        \* all SubstitutionNamespace objects ever created
    layout,      \* how the namespace was constructed (history)
    callHeap,    \* the heap when the current self_substitute call began (history)
    arg,         \* the namespace passed to the current self_substitute call
    ns,          \* local variable ns of self_substitute
    pc,          \* position inside self_substitute
    passes,      \* number of _substitute_ passes run by the current call
    updated,     \* local variable updated of self_substitute
    unresolved,  \* local variable unresolved of self_substitute
    err,         \* class of the exception self_substitute raised, or "none"
    result,      \* what the current call returned
    prev,        \* what the previous call returned (history)
    calls,       \* number of self_substitute calls started
    vargs,       \* the arguments of the validate_parameters call
    vpc,         \* position inside validate_parameters
    inputs,      \* local variable inputs of validate_parameters
    vunres,      \* local variable unresolved of validate_parameters
    validated,   \* local variable validated of validate_parameters
    verr,        \* the exception validate_parameters raised
    mstring,     \* the string argument of the multireplace call
    mreplacements, \* the replacements argument of the multireplace call
    mpc,         \* position of the multireplace call
    mresult      \* what multireplace returned

svars == <<heap, layout, callHeap, arg, ns, pc, passes, updated, unresolved,
           err, result, prev, calls>>

vvars == <<vargs, vpc, inputs, vunres, validated, verr>>

mvars == <<mstring, mreplacements, mpc, mresult>>

vars == <<svars, vvars, mvars>>

-----------------------------------------------------------------------------
(* Characters *)

LB == "{"
RB == "}"
\* the private sentinels u00AB and u00BB of _substitute_
SentL == "<"
SentR == ">"
Dot == "."

-----------------------------------------------------------------------------
(* Values held by namespace entries *)

ExcClasses == {"KeyError", "AttributeError", "ValueError", "IndexError"}

StrV(s) == [t |-> "str", s |-> s, id |-> 0]
\* validate.Error, a subclass of str
ErrorV(s) == [t |-> "Error", s |-> s, id |-> 0]
\* a non-string leaf (e.g. the integer 1); s is its str() image
IntV(s) == [t |-> "int", s |-> s, id |-> 0]
\* an exception object; s is its single argument
ExcV(cls, s) == [t |-> cls, s |-> s, id |-> 0]
\* the set() stored by _clear_forgivens_
SetV == [t |-> "set", s |-> <<>>, id |-> 0]
\* a reference to the namespace object heap[id]
NsV(id) == [t |-> "ns", s |-> <<>>, id |-> id]
\* no entry
Absent == [t |-> "absent", s |-> <<>>, id |-> 0]

IsStr(v) == v.t \in {"str", "Error"}
IsExc(v) == v.t \in ExcClasses
IsNs(v) == v.t = "ns"

Props(mutable, forgiving) == [mutable |-> mutable, forgiving |-> forgiving]

NewNode == [keys |-> <<>>, vals |-> <<>>, cprops |-> <<>>,
            props |-> Props(TRUE, FALSE), forgave |-> {}]

HasKey(node, k) == \E i \in 1..Len(node.keys) : node.keys[i] = k

\* OrderedDict.__setitem__: a new key goes last, an existing key keeps its place
SetItem(node, k, v) ==
    [node EXCEPT !.keys = IF HasKey(node, k) THEN @ ELSE Append(@, k),
                 !.vals = (k :> v) @@ @]

Contains(s, c) == \E i \in 1..Len(s) : s[i] = c

-----------------------------------------------------------------------------
(* multireplace *)

IsPrefixAt(s, i, k) ==
    /\ Len(k) > 0
    /\ i + Len(k) - 1 <= Len(s)
    /\ SubSeq(s, i, i + Len(k) - 1) = k

\* the shortest of the matching keys
ShortestMatch(m) == CHOOSE r \in m : \A q \in m : Len(r[1]) <= Len(q[1])

\* the alternative the regex picks at position i: keys are sorted longest first
LongestMatch(m) == CHOOSE r \in m : \A q \in m : Len(q[1]) <= Len(r[1])

Min(S) == CHOOSE x \in S : \A y \in S : x <= y

\* the positions from i on where some key matches
MatchPositions(string, replacements, i) ==
    {j \in i..Len(string) : \E r \in replacements : IsPrefixAt(string, j, r[1])}

RECURSIVE multireplaceFrom(_, _, _)
\* pattern.sub: the leftmost match is replaced, the scan resumes after it
multireplaceFrom(string, replacements, i) ==
    LET hits == MatchPositions(string, replacements, i)
    IN  IF hits = {} THEN SubSeq(string, i, Len(string))
        ELSE LET j == Min(hits)
                 r == LongestMatch({q \in replacements : IsPrefixAt(string, j, q[1])})
             IN  SubSeq(string, i, j - 1) \o r[2]
                 \o multireplaceFrom(string, replacements, j + Len(r[1]))

\* replacements is a set of pairs <<old, new>>
multireplace(string, replacements) == multireplaceFrom(string, replacements, 1)

ProtectMap == { << <<LB, LB>>, <<SentL>> >>, << <<RB, RB>>, <<SentR>> >> }

RestoreMap == { << <<SentL>>, <<LB, LB>> >>, << <<SentR>>, <<RB, RB>> >> }

\* no protection: doubled braces reach str.format as they are
ProtectBracesOff(value) == value

ProtectBraces(value) == multireplace(value, ProtectMap)

RestoreBraces(value) == multireplace(value, RestoreMap)

-----------------------------------------------------------------------------
(* str.format with keyword arguments *)

\* str(exc): KeyError shows the repr of its argument
StrOfExc(v) ==
    IF v.t = "KeyError" THEN <<"'">> \o v.s \o <<"'">> ELSE v.s

\* messages of the ValueErrors of str.format, cut down to the brace they quote
MsgSingleL == <<"'", LB, "'">>
MsgSingleR == <<"'", RB, "'">>
MsgIndex == <<"0">>
MsgEmptyAttr == <<"e">>
\* "'T' object has no attribute 'name'"
MsgNoAttr(name) == <<"'">> \o name \o <<"'">>

\* format(obj, ""), i.e. str(obj)
StrOfValue(v) ==
    IF v.t \in {"str", "Error", "int"} THEN v.s
    ELSE IF IsExc(v) THEN StrOfExc(v)
    ELSE IF v.t = "set" THEN <<"s", "e", "t", "(", ")">>
    ELSE <<"N", "S", "(", ")">>

\* the first "}" from j on, 0 when there is none
FindRB(s, j) ==
    LET P == {k \in j..Len(s) : s[k] = RB} IN IF P = {} THEN 0 ELSE Min(P)

\* the first brace from i on, 0 when there is none
FindBrace(s, i) ==
    LET P == {k \in i..Len(s) : s[k] \in {LB, RB}} IN IF P = {} THEN 0 ELSE Min(P)

RECURSIVE SplitFrom(_, _, _, _)
SplitFrom(s, i, cur, acc) ==
    IF i > Len(s) THEN Append(acc, cur)
    ELSE IF s[i] = Dot THEN SplitFrom(s, i + 1, <<>>, Append(acc, cur))
    ELSE SplitFrom(s, i + 1, Append(cur, s[i]), acc)

\* the dotted segments of a field name
SplitField(field) == SplitFrom(field, 1, <<>>, <<>>)

\* a field-name segment names an entry key when it is that one character
SegKey(node, seg) == Len(seg) = 1 /\ HasKey(node, seg[1])

\* SubstitutionNamespace.__getattr__ (and getattr on any other object)
GetAttr(h, obj, name) ==
    IF IsNs(obj)
    THEN IF SegKey(h[obj.id], name)
         THEN [heap |-> h, val |-> h[obj.id].vals[name[1]], raised |-> FALSE]
         ELSE IF h[obj.id].props.forgiving
         THEN [heap |-> [h EXCEPT ![obj.id].forgave = @ \cup {name}],
               val |-> StrV(<<"(">> \o name \o <<")">>), raised |-> FALSE]
         ELSE [heap |-> h, val |-> ExcV("AttributeError", name), raised |-> TRUE]
    ELSE [heap |-> h, val |-> ExcV("AttributeError", MsgNoAttr(name)), raised |-> TRUE]

RECURSIVE GetAttrChain(_, _, _, _)
GetAttrChain(h, obj, segs, k) ==
    IF k > Len(segs) THEN [heap |-> h, val |-> obj, raised |-> FALSE]
    ELSE IF segs[k] = <<>>
    THEN [heap |-> h, val |-> ExcV("ValueError", MsgEmptyAttr), raised |-> TRUE]
    ELSE LET r == GetAttr(h, obj, segs[k])
         IN  IF r.raised THEN r ELSE GetAttrChain(r.heap, r.val, segs, k + 1)

\* the value of one replacement field; kwargs = 0 means no keyword arguments
GetField(h, kwargs, field) ==
    LET segs == SplitField(field)
    IN  IF segs[1] = <<>>
        THEN [heap |-> h, val |-> ExcV("IndexError", MsgIndex), raised |-> TRUE]
        ELSE IF kwargs = 0 \/ ~SegKey(h[kwargs], segs[1])
        THEN [heap |-> h, val |-> ExcV("KeyError", segs[1]), raised |-> TRUE]
        ELSE GetAttrChain(h, h[kwargs].vals[segs[1][1]], segs, 2)

RECURSIVE FormatFrom(_, _, _, _, _), FormatField(_, _, _, _, _)
\* the text after a replacement field whose value is r.val
FormatField(kwargs, s, j, lit, r) ==
    IF r.raised THEN r
    ELSE FormatFrom(r.heap, kwargs, s, j + 1, lit \o StrOfValue(r.val))

\* the literal text up to the next brace is copied, then the brace is parsed
FormatFrom(h, kwargs, s, i, acc) ==
    LET b == FindBrace(s, i)
        lit == acc \o SubSeq(s, i, b - 1)
    IN  IF b = 0 THEN [heap |-> h, val |-> StrV(acc \o SubSeq(s, i, Len(s))), raised |-> FALSE]
        ELSE IF s[b] = LB
        THEN IF b < Len(s) /\ s[b + 1] = LB
             THEN FormatFrom(h, kwargs, s, b + 2, Append(lit, LB))
             ELSE LET j == FindRB(s, b + 1)
                  IN  IF j = 0
                      THEN [heap |-> h, val |-> ExcV("ValueError", MsgSingleL), raised |-> TRUE]
                      ELSE IF Contains(SubSeq(s, b + 1, j - 1), LB)
                      THEN [heap |-> h, val |-> ExcV("ValueError", MsgSingleL), raised |-> TRUE]
                      ELSE FormatField(kwargs, s, j, lit,
                                       GetField(h, kwargs, SubSeq(s, b + 1, j - 1)))
        ELSE IF b < Len(s) /\ s[b + 1] = RB
             THEN FormatFrom(h, kwargs, s, b + 2, Append(lit, RB))
             ELSE [heap |-> h, val |-> ExcV("ValueError", MsgSingleR), raised |-> TRUE]

\* s.format with the entries of heap[kwargs] as keyword arguments; lookups may
\* add to _forgave_ sets, hence the heap in the result
Format(h, kwargs, s) == FormatFrom(h, kwargs, s, 1, <<>>)

-----------------------------------------------------------------------------
(* SubstitutionNamespace *)

\* SubstitutionNamespace._add_
Add(h, self, k, v, forgiving, mutable) ==
    LET props == Props(mutable, forgiving)
        h1 == IF IsNs(v) THEN [h EXCEPT ![v.id].props = props] ELSE h
    IN  [h1 EXCEPT ![self] = [SetItem(@, k, v) EXCEPT !.cprops = (k :> props) @@ @]]

\* SubstitutionNamespace.copy: the new object is the last one of the heap
Copy(h, self) == Append(h, h[self])

\* line 133: the entries _substitute_ formats
Substitutable(value) == value.t = "str" /\ Contains(value.s, LB)

\* recursion that ignores the mutable property
RecursesAlways(value, props) == IsNs(value)

\* line 145: the entries _substitute_ recurses into
Recurses(value, props) == IsNs(value) /\ props.mutable

\* a pass that never reports an update
ChangedNever(value, newvalue) == 0

\* line 140: updated1 = int(value != newvalue)
Changed(value, newvalue) == IF value /= newvalue THEN 1 ELSE 0

\* exceptions that are not counted
CountsNothing(value) == FALSE

\* line 147: an exception left by an earlier pass counts as unresolved
CountsUnresolved(value) == IsExc(value)

\* "subst or output": None and an empty namespace are both falsy
LookupSource(h, subst, output) ==
    IF subst = 0 \/ Len(h[subst].keys) = 0 THEN output ELSE subst

\* lines 139-143: the new value of a string entry, f being what format gave
Formatted(value, f, restored) ==
    IF f.raised
    THEN [heap |-> f.heap, newvalue |-> f.val, updated1 |-> 1, unresolved1 |-> 1]
    ELSE [heap |-> f.heap, newvalue |-> restored,
          updated1 |-> Changed(value, restored), unresolved1 |-> 0]

\* lines 139-143, after format
AfterFormat(value, f) ==
    Formatted(value, f, IF f.raised THEN f.val ELSE StrV(RestoreBraces(f.val.s)))

\* lines 135-143: one string entry
SubstituteString(h, kwargs, value) ==
    AfterFormat(value, Format(h, kwargs, ProtectBraces(value.s)))

RECURSIVE SubstituteEntries(_, _, _, _, _, _, _), SubstituteEntry(_, _, _, _),
          StoreEntry(_, _, _, _, _, _, _)
\* lines 130-148: the new value and the counters of one entry, looked up in src
SubstituteEntry(h, value, props, src) ==
    IF Substitutable(value) THEN SubstituteString(h, src, value)
    ELSE IF Recurses(value, props)
    THEN LET c == SubstituteEntries(h, value.id, src, 1, value.id, 0, 0)
         IN  [heap |-> c.heap, newvalue |-> NsV(c.out),
              updated1 |-> c.updated, unresolved1 |-> c.unresolved]
    ELSE IF CountsUnresolved(value)
    THEN [heap |-> h, newvalue |-> value, updated1 |-> 0, unresolved1 |-> 1]
    ELSE [heap |-> h, newvalue |-> value, updated1 |-> 0, unresolved1 |-> 0]

\* lines 150-156: copy on the first change, store, count, and go on
StoreEntry(self, subst, i, output, upd, unres, r) ==
    LET name == r.heap[self].keys[i]
        needCopy == r.updated1 /= 0 /\ output = self
        h2 == IF needCopy THEN Copy(r.heap, self) ELSE r.heap
        out2 == IF needCopy THEN Len(h2) ELSE output
        h3 == IF r.updated1 /= 0
              THEN [h2 EXCEPT ![out2] = SetItem(@, name, r.newvalue)]
              ELSE h2
    IN  SubstituteEntries(h3, self, subst, i + 1, out2,
                          upd + r.updated1, unres + r.unresolved1)

\* lines 129-158: the loop over the entries of self, from the i-th on
SubstituteEntries(h, self, subst, i, output, upd, unres) ==
    IF i > Len(h[self].keys)
    THEN [heap |-> h, out |-> output, updated |-> upd, unresolved |-> unres]
    ELSE StoreEntry(self, subst, i, output, upd, unres,
                    SubstituteEntry(h, h[self].vals[h[self].keys[i]],
                                    h[self].cprops[h[self].keys[i]],
                                    LookupSource(h, subst, output)))

\* SubstitutionNamespace._substitute_; subst = 0 is None
Substitute(h, self, subst) == SubstituteEntries(h, self, subst, 1, self, 0, 0)

RECURSIVE ClearForgivens(_, _), ClearChildren(_, _, _)
\* SubstitutionNamespace._clear_forgivens_: the assignment self._forgave_ = set()
\* goes through __setattr__, that is through _add_
ClearForgivens(h, self) ==
    ClearChildren(Add(h, self, "_forgave_", SetV, FALSE, TRUE), self, 1)

ClearChildren(h, self, i) ==
    IF i > Len(h[self].keys) THEN h
    ELSE LET child == h[self].vals[h[self].keys[i]]
         IN  IF IsNs(child) THEN ClearChildren(ClearForgivens(h, child.id), self, i + 1)
             ELSE ClearChildren(h, self, i + 1)

RECURSIVE SeqOfSet(_)
\* a list of the elements of a set, in some order
SeqOfSet(S) ==
    IF S = {} THEN <<>>
    ELSE LET e == CHOOSE e \in S : TRUE IN <<e>> \o SeqOfSet(S \ {e})

\* the name argument None
NoName == <<>>

RECURSIVE CollectForgivens(_, _, _), CollectChildren(_, _, _, _)
\* SubstitutionNamespace._collect_forgivens_
CollectForgivens(h, self, name) ==
    LET own == IF name = NoName THEN <<Dot>> ELSE name
    IN  SeqOfSet({own \o <<Dot>> \o key : key \in h[self].forgave})
        \o CollectChildren(h, self, name, 1)

CollectChildren(h, self, name, i) ==
    IF i > Len(h[self].keys) THEN <<>>
    ELSE LET child_name == h[self].keys[i]
             child == h[self].vals[child_name]
         IN  (IF IsNs(child)
              THEN CollectForgivens(h, child.id,
                       IF name /= NoName THEN name \o <<Dot, child_name>>
                       ELSE <<child_name>>)
              ELSE <<>>)
             \o CollectChildren(h, self, name, i + 1)

RECURSIVE FinalizeEntries(_, _, _, _), FinalizeEntry(_, _), FinalizeStore(_, _, _, _, _)
\* lines 179-184: the new value of one entry; format() has no arguments
FinalizeEntry(h, value) ==
    IF IsStr(value)
    THEN LET f == Format(h, 0, value.s)
         IN  [heap |-> h, newvalue |-> f.val, raised |-> f.raised]
    ELSE [heap |-> h, newvalue |-> value, raised |-> FALSE]

\* lines 179-181: the new value of a mutable child namespace
FinalizeChild(c) ==
    [heap |-> c.heap, newvalue |-> IF c.raised THEN c.exc ELSE NsV(c.out),
     raised |-> c.raised]

\* lines 185-188: copy on the first change, store, and go on
FinalizeStore(value, self, i, output, r) ==
    IF r.raised
    THEN [heap |-> r.heap, out |-> output, raised |-> TRUE, exc |-> r.newvalue]
    ELSE LET name == r.heap[self].keys[i]
             upd == IF IsStr(value) THEN r.newvalue.s /= value.s
                    ELSE r.newvalue /= value
             needCopy == upd /\ output = self
             h2 == IF needCopy THEN Copy(r.heap, self) ELSE r.heap
             out2 == IF needCopy THEN Len(h2) ELSE output
             h3 == IF upd THEN [h2 EXCEPT ![out2] = SetItem(@, name, r.newvalue)]
                   ELSE h2
         IN  FinalizeEntries(h3, self, i + 1, out2)

\* lines 176-188: the loop over the entries of self, from the i-th on
FinalizeEntries(h, self, i, output) ==
    IF i > Len(h[self].keys)
    THEN [heap |-> h, out |-> output, raised |-> FALSE, exc |-> Absent]
    ELSE LET name == h[self].keys[i]
             value == h[self].vals[name]
         IN  IF IsNs(value) /\ h[self].cprops[name].mutable
             THEN FinalizeStore(value, self, i, output,
                                FinalizeChild(FinalizeEntries(h, value.id, 1, value.id)))
             ELSE FinalizeStore(value, self, i, output, FinalizeEntry(h, value))

\* SubstitutionNamespace._finalize_braces_; value.format() may raise
FinalizeBraces(h, self) == FinalizeEntries(h, self, 1, self)

-----------------------------------------------------------------------------
(* The namespaces the model is run on *)

\* the root holds leaves a, b and the children f and x; f holds leaves a, c
\* and the child h; h holds leaves a, b; x holds leaves b, c
Root == 1
NodeF == 2
NodeH == 3
NodeX == 4

KeysOf(n) ==
    IF n = Root THEN <<"a", "b", "f", "x">>
    ELSE IF n = NodeF THEN <<"a", "c", "h">>
    ELSE IF n = NodeH THEN <<"a", "b">>
    ELSE <<"b", "c">>

ChildOf(n, k) ==
    IF n = Root /\ k = "f" THEN NodeF
    ELSE IF n = Root /\ k = "x" THEN NodeX
    ELSE IF n = NodeF /\ k = "h" THEN NodeH
    ELSE 0

Leaves == {<<n, KeysOf(n)[i]>> : n \in {Root}, i \in {1, 2}}
          \cup {<<n, KeysOf(n)[i]>> : n \in {NodeF, NodeH, NodeX}, i \in {1, 2}}

Reverse(seq) == [i \in 1..Len(seq) |-> seq[Len(seq) + 1 - i]]

Ref(path) == <<LB>> \o path \o <<RB>>
Esc(text) == <<LB, LB>> \o text \o <<RB, RB>>
P2(n, k) == <<n, Dot, k>>
P3(n, m, k) == <<n, Dot, m, Dot, k>>

MkLayout(ra, rb, fa, fc, ha, hb, xb, xc, rev) ==
    [tpl |-> (<<Root, "a">> :> ra) @@ (<<Root, "b">> :> rb)
             @@ (<<NodeF, "a">> :> fa) @@ (<<NodeF, "c">> :> fc)
             @@ (<<NodeH, "a">> :> ha) @@ (<<NodeH, "b">> :> hb)
             @@ (<<NodeX, "b">> :> xb) @@ (<<NodeX, "c">> :> xc),
     rev |-> rev, bare |-> FALSE]

\* cross-references between the root entries, cyclic ones among them
CyclicLayouts ==
    { MkLayout(ra, rb, fa, fc, StrV(<<"3">>), StrV(<<"4">>),
               StrV(Ref(<<"b">>) \o <<"t">>), StrV(Esc(<<"z">>)), rev) :
      ra \in { StrV(Ref(<<"b">>)), StrV(Ref(<<"b">>) \o <<"v">>) },
      rb \in { StrV(Ref(<<"a">>)), StrV(<<"w">>) },
      fa \in { IntV(<<"1">>), StrV(Ref(P2("f", "c"))) },
      fc \in { StrV(<<"2">>), StrV(Ref(P2("f", "a"))) },
      rev \in BOOLEAN }

\* references across the nodes, escapes, missing names, reads from x
MixedLayouts ==
    { MkLayout(ra, rb, fa, fc, ha, hb, StrV(Ref(<<"b">>) \o <<"t">>), xc, rev) :
      ra \in { StrV(Ref(<<"b">>)), StrV(Esc(<<"b">>) \o Ref(P2("f", "a"))) },
      rb \in { StrV(<<"w">>), StrV(Ref(P2("f", "z"))) },
      fa \in { IntV(<<"1">>), StrV(Ref(P2("f", "c"))), StrV(Esc(<<"c">>)),
               StrV(Ref(P2("x", "b"))) },
      fc \in { StrV(<<"2">>), StrV(Ref(P2("f", "a"))), StrV(Ref(P3("f", "h", "z"))),
               StrV(Ref(P2("x", "c"))) },
      ha \in { StrV(<<"3">>), StrV(Ref(P2("f", "a"))) },
      hb \in { StrV(<<"4">>), StrV(Ref(P3("f", "h", "z"))), StrV(Ref(<<"q">>)) },
      xc \in { StrV(Esc(<<"z">>)), StrV(Ref(P3("f", "h", "y"))) },
      rev \in BOOLEAN }

\* namespaces that a resolution pass leaves as they are
FixedLayouts ==
    { MkLayout(ra, StrV(<<"w">>), fa, StrV(<<"2">>), StrV(<<"3">>), StrV(<<"4">>),
               StrV(Ref(<<"b">>) \o <<"t">>), StrV(Esc(<<"z">>)), rev) :
      ra \in { StrV(<<"v">>), StrV(Esc(<<"b">>)) },
      fa \in { IntV(<<"1">>), StrV(Esc(<<"c">>)) },
      rev \in BOOLEAN }

\* a root that holds the two leaves a and b and nothing else
BareLayouts ==
    { [MkLayout(ra, rb, Absent, Absent, Absent, Absent, Absent, Absent, rev)
          EXCEPT !.bare = TRUE] :
      ra \in { StrV(Ref(<<"b">>)), StrV(Ref(<<"b">>) \o <<"v">>) },
      rb \in { StrV(Ref(<<"a">>)), StrV(<<"w">>) },
      rev \in BOOLEAN }

Layouts == CyclicLayouts \cup MixedLayouts \cup FixedLayouts \cup BareLayouts

RECURSIVE AddAll(_, _, _, _, _)
\* the calls of _add_ that fill node n, in the order ks
AddAll(h, lay, n, ks, i) ==
    IF i > Len(ks) THEN h
    ELSE LET k == ks[i]
             c == ChildOf(n, k)
         IN  IF c /= 0
             THEN IF lay.bare THEN AddAll(h, lay, n, ks, i + 1)
                  ELSE AddAll(Add(h, n, k, NsV(c), c = NodeH, c /= NodeX), lay, n, ks, i + 1)
             ELSE IF lay.tpl[<<n, k>>] = Absent THEN AddAll(h, lay, n, ks, i + 1)
             ELSE AddAll(Add(h, n, k, lay.tpl[<<n, k>>], FALSE, TRUE), lay, n, ks, i + 1)

Order(lay, n) == IF lay.rev THEN Reverse(KeysOf(n)) ELSE KeysOf(n)

\* the heap after the namespace has been constructed
Build(lay) ==
    LET h0 == <<NewNode, NewNode, NewNode, NewNode>>
        h1 == AddAll(h0, lay, Root, Order(lay, Root), 1)
        h2 == AddAll(h1, lay, NodeF, Order(lay, NodeF), 1)
        h3 == AddAll(h2, lay, NodeH, Order(lay, NodeH), 1)
    IN  AddAll(h3, lay, NodeX, Order(lay, NodeX), 1)

-----------------------------------------------------------------------------
(* self_substitute *)

\* range(10) at line 224
IterationCap == 10

\* how many times the caller runs self_substitute
MaxCalls == 2

NoResult == [ns |-> 0, unresolved |-> 0, forgivens |-> <<>>]

\* a dict: its keys in insertion order, and the value of each key
EmptyDict == [keys |-> <<>>, vals |-> <<>>]

\* no exception
NoErr == [what |-> "none", names |-> <<>>]

\* validate_parameters is not being called
NoCall == [params |-> EmptyDict, schemas |-> EmptyDict, defaults |-> EmptyDict,
           check_unknowns |-> TRUE, check_required |-> TRUE, check_exist |-> TRUE]

\* multireplace is not being called
MultireplaceIdle ==
    /\ mstring = <<>>
    /\ mreplacements = {}
    /\ mpc = "idle"
    /\ mresult = <<>>

ValidatorIdle ==
    /\ vargs = NoCall
    /\ vpc = "idle"
    /\ inputs = EmptyDict
    /\ vunres = EmptyDict
    /\ validated = EmptyDict
    /\ verr = NoErr

Init ==
    /\ ValidatorIdle
    /\ MultireplaceIdle
    /\ layout \in Layouts
    /\ heap = Build(layout)
    /\ callHeap = heap
    /\ arg = Root
    /\ ns = Root
    /\ pc = "start"
    /\ passes = 0
    /\ updated = 0
    /\ unresolved = 0
    /\ err = "none"
    /\ result = NoResult
    /\ prev = NoResult
    /\ calls = 1

\* line 218
DoClearForgivens ==
    /\ pc = "start"
    /\ heap' = ClearForgivens(heap, ns)
    /\ pc' = "loop"
    /\ UNCHANGED <<layout, callHeap, arg, ns, passes, updated, unresolved, err,
                   result, prev, calls>>
    /\ UNCHANGED vvars
    /\ UNCHANGED mvars

\* a loop that only stops at the cap
LoopNeverBreaks(upd) == TRUE

\* line 227: the loop goes on while the pass changed something
LoopContinues(upd) == upd /= 0

\* lines 225-229: the results of the pass are kept, and the loop goes on or not
AfterPass(r) ==
    /\ heap' = r.heap
    /\ ns' = r.out
    /\ updated' = r.updated
    /\ unresolved' = r.unresolved
    /\ passes' = passes + 1
    /\ pc' = IF ~LoopContinues(r.updated) THEN "finalize"
             ELSE IF passes + 1 = IterationCap THEN "exhausted"
             ELSE "loop"

\* lines 224-229: one iteration of the for loop
SubstitutePass ==
    /\ pc = "loop"
    /\ passes < IterationCap
    /\ AfterPass(Substitute(heap, ns, 0))
    /\ UNCHANGED <<layout, callHeap, arg, err, result, prev, calls>>
    /\ UNCHANGED vvars
    /\ UNCHANGED mvars

\* lines 230-231: the else branch of the for loop
RaiseSubstitutionError ==
    /\ pc = "exhausted"
    /\ pc' = "raised"
    /\ err' = "SubstitutionError"
    /\ UNCHANGED <<heap, layout, callHeap, arg, ns, passes, updated, unresolved,
                   result, prev, calls>>
    /\ UNCHANGED vvars
    /\ UNCHANGED mvars

\* lines 235-238: the exception of _finalize_braces_ leaves the call, or the
\* namespace, the unresolved count and the forgiven list are returned
AfterFinalize(r) ==
    IF r.raised
    THEN /\ pc' = "raised"
         /\ err' = r.exc.t
         /\ UNCHANGED <<heap, ns, result>>
    ELSE /\ pc' = "done"
         /\ heap' = r.heap
         /\ ns' = r.out
         /\ result' = [ns |-> r.out, unresolved |-> unresolved,
                       forgivens |-> CollectForgivens(r.heap, r.out, NoName)]
         /\ err' = err

\* lines 235-238: finalize the braces, collect the forgiven names, return
FinalizeAndReturn ==
    /\ pc = "finalize"
    /\ AfterFinalize(FinalizeBraces(heap, ns))
    /\ UNCHANGED <<layout, callHeap, arg, passes, updated, unresolved, prev, calls>>
    /\ UNCHANGED vvars
    /\ UNCHANGED mvars

\* the caller runs self_substitute again, on the namespace it got back or on
\* the one it passed in
CallAgain ==
    /\ pc = "done"
    /\ calls < MaxCalls
    /\ \E target \in {result.ns, arg} :
        /\ arg' = target
        /\ ns' = target
    /\ callHeap' = heap
    /\ pc' = "start"
    /\ passes' = 0
    /\ updated' = 0
    /\ unresolved' = 0
    /\ prev' = result
    /\ result' = NoResult
    /\ calls' = calls + 1
    /\ UNCHANGED <<heap, layout, err>>
    /\ UNCHANGED vvars
    /\ UNCHANGED mvars

Next ==
    \/ DoClearForgivens
    \/ SubstitutePass
    \/ RaiseSubstitutionError
    \/ FinalizeAndReturn
    \/ CallAgain

Spec == Init /\ [][Next]_vars

-----------------------------------------------------------------------------
(* self_substitute as one function, for runs on other namespaces *)

RECURSIVE ResolveLoop(_, _, _)
\* lines 224-231
ResolveLoop(h, n, i) ==
    LET r == Substitute(h, n, 0)
        out == [heap |-> r.heap, ns |-> r.out, unresolved |-> r.unresolved,
                passes |-> i + 1, converged |-> ~LoopContinues(r.updated)]
    IN  IF ~LoopContinues(r.updated) \/ i + 1 = IterationCap THEN out
        ELSE ResolveLoop(r.heap, r.out, i + 1)

\* lines 218-238
SelfSubstitute(h, root) ==
    LET l == ResolveLoop(ClearForgivens(h, root), root, 0)
        f == FinalizeBraces(l.heap, l.ns)
    IN  IF ~l.converged
        THEN [status |-> "raised", err |-> "SubstitutionError", heap |-> l.heap,
              ns |-> l.ns, unresolved |-> l.unresolved, forgivens |-> <<>>,
              passes |-> l.passes]
        ELSE IF f.raised
        THEN [status |-> "raised", err |-> f.exc.t, heap |-> l.heap,
              ns |-> l.ns, unresolved |-> l.unresolved, forgivens |-> <<>>,
              passes |-> l.passes]
        ELSE [status |-> "done", err |-> "none", heap |-> f.heap,
              ns |-> f.out, unresolved |-> l.unresolved,
              forgivens |-> CollectForgivens(f.heap, f.out, NoName),
              passes |-> l.passes]

-----------------------------------------------------------------------------
(* Reading a namespace tree, and the references its templates make *)

ChildId(h, id, k) ==
    IF HasKey(h[id], k) /\ IsNs(h[id].vals[k]) THEN h[id].vals[k].id ELSE 0

\* the object that is node n of the tree rooted at r, 0 when there is none
NodeIn(h, r, n) ==
    IF n = Root THEN r
    ELSE IF n = NodeF THEN ChildId(h, r, "f")
    ELSE IF n = NodeX THEN ChildId(h, r, "x")
    ELSE IF ChildId(h, r, "f") = 0 THEN 0
    ELSE ChildId(h, ChildId(h, r, "f"), "h")

\* the value of leaf l in the tree rooted at r
LeafVal(h, r, l) ==
    LET n == NodeIn(h, r, l[1])
    IN  IF n = 0 THEN Absent
        ELSE IF ~HasKey(h[n], l[2]) THEN Absent
        ELSE h[n].vals[l[2]]

PathOf(l) ==
    IF l[1] = Root THEN <<l[2]>>
    ELSE IF l[1] = NodeF THEN P2("f", l[2])
    ELSE IF l[1] = NodeH THEN P3("f", "h", l[2])
    ELSE P2("x", l[2])

MutableLeaves == {l \in Leaves : l[1] /= NodeX}

Present(lay, l) == lay.tpl[l] /= Absent

ContainsSeq(s, sub) == \E i \in 1..Len(s) : IsPrefixAt(s, i, sub)

Count(seq, e) == Cardinality({i \in 1..Len(seq) : seq[i] = e})

RECURSIVE FieldsFrom(_, _)
\* the replacement fields of a template; doubled braces are escapes
FieldsFrom(s, i) ==
    LET b == FindBrace(s, i)
        j == FindRB(s, b + 1)
    IN  IF b = 0 THEN {}
        ELSE IF b < Len(s) /\ s[b + 1] = s[b] THEN FieldsFrom(s, b + 2)
        ELSE IF s[b] = RB THEN FieldsFrom(s, b + 1)
        ELSE IF j = 0 THEN {}
        ELSE {SubSeq(s, b + 1, j - 1)} \cup FieldsFrom(s, j + 1)

DirectRefs(lay, l) ==
    IF lay.tpl[l].t = "str" THEN FieldsFrom(lay.tpl[l].s, 1) ELSE {}

TargetOf(lay, path) == {l \in Leaves : Present(lay, l) /\ PathOf(l) = path}

Succ(lay, l) == UNION {TargetOf(lay, path) : path \in DirectRefs(lay, l)}

RECURSIVE ReachN(_, _, _)
ReachN(lay, S, n) ==
    IF n = 0 THEN S ELSE ReachN(lay, S \cup UNION {Succ(lay, l) : l \in S}, n - 1)

\* the leaves that leaf l references, directly or through other leaves
Reach(lay, l) == ReachN(lay, Succ(lay, l), Cardinality(Leaves))

Acyclic(lay) == \A l \in Leaves : l \notin Reach(lay, l)

AllExist(lay) ==
    \A l \in Leaves : \A path \in DirectRefs(lay, l) : TargetOf(lay, path) /= {}

\* a reference into the forgiving node h to a name h does not hold
ForgivenPath(lay, path) ==
    /\ ~lay.bare
    /\ Len(path) = 5
    /\ SubSeq(path, 1, 4) = <<"f", Dot, "h", Dot>>
    /\ TargetOf(lay, path) = {}

\* a reference that no entry and no forgiving node answers
StrictMissing(lay, path) == TargetOf(lay, path) = {} /\ ~ForgivenPath(lay, path)

BadLeaves(lay) ==
    {l \in MutableLeaves : \E path \in DirectRefs(lay, l) : StrictMissing(lay, path)}

Unrelated(lay, l) ==
    /\ l \in MutableLeaves
    /\ Present(lay, l)
    /\ l \notin BadLeaves(lay)
    /\ Reach(lay, l) \cap BadLeaves(lay) = {}

WithoutLeaves(lay, B) ==
    [lay EXCEPT !.tpl = [l \in Leaves |-> IF l \in B THEN Absent ELSE lay.tpl[l]]]

RECURSIVE RawOf(_, _), ExpandFrom(_, _, _)
\* the template of leaf l with every reference replaced, innermost first, by
\* the text it stands for; escapes are kept
RawOf(lay, l) ==
    IF lay.tpl[l].t = "str" THEN ExpandFrom(lay, lay.tpl[l].s, 1) ELSE lay.tpl[l].s

ExpandFrom(lay, s, i) ==
    LET b == FindBrace(s, i)
        j == FindRB(s, b + 1)
        t == CHOOSE l \in TargetOf(lay, SubSeq(s, b + 1, j - 1)) : TRUE
    IN  IF b = 0 THEN SubSeq(s, i, Len(s))
        ELSE IF b < Len(s) /\ s[b + 1] = s[b]
        THEN SubSeq(s, i, b + 1) \o ExpandFrom(lay, s, b + 2)
        ELSE SubSeq(s, i, b - 1) \o RawOf(lay, t) \o ExpandFrom(lay, s, j + 1)

RECURSIVE UnescapeFrom(_, _)
UnescapeFrom(s, i) ==
    LET b == FindBrace(s, i)
    IN  IF b = 0 THEN SubSeq(s, i, Len(s))
        ELSE IF b < Len(s) /\ s[b + 1] = s[b]
        THEN SubSeq(s, i, b) \o UnescapeFrom(s, b + 2)
        ELSE SubSeq(s, i, b) \o UnescapeFrom(s, b + 1)

\* doubled braces made single
Unescape(s) == UnescapeFrom(s, 1)

\* the fully resolved value of leaf l
Expected(lay, l) ==
    IF lay.tpl[l].t = "str" THEN StrV(Unescape(RawOf(lay, l))) ELSE lay.tpl[l]

SameLeafValues(h1, r1, h2, r2) ==
    \A l \in Leaves : LeafVal(h1, r1, l) = LeafVal(h2, r2, l)

-----------------------------------------------------------------------------
(* Claims about self_substitute *)

LeafNow(l) == LeafVal(heap, ns, l)
LeafResult(l) == LeafVal(heap, result.ns, l)
LeafBefore(l) == LeafVal(callHeap, arg, l)

IsMutualCycle(lay) ==
    /\ lay.bare
    /\ lay.tpl[<<Root, "a">>] = StrV(Ref(<<"b">>))
    /\ lay.tpl[<<Root, "b">>] = StrV(Ref(<<"a">>))

\* C1: on the namespace a = "{b}", b = "{a}" self_substitute never returns,
\* and when it fails it fails with SubstitutionError after exactly
\* IterationCap passes.
C1_MutualCycleHitsCap ==
    IsMutualCycle(layout) =>
        /\ pc /= "done"
        /\ pc = "raised" => (err = "SubstitutionError" /\ passes = IterationCap)

\* C2: the resolution loop runs at most IterationCap passes, goes on only
\* after a pass that updated something, leaves at the first pass with zero
\* updates, and SubstitutionError is raised exactly when pass number
\* IterationCap still updated something.
C2_LoopStopsAtFixedPointOrCap ==
    /\ passes <= IterationCap
    /\ (pc = "loop" /\ passes > 0) => updated /= 0
    /\ pc \in {"finalize", "done"} => (passes >= 1 /\ updated = 0)
    /\ (pc = "raised" /\ err /= "SubstitutionError") => updated = 0
    /\ (pc = "raised" /\ err = "SubstitutionError")
          => (passes = IterationCap /\ updated /= 0)
    /\ (passes = IterationCap /\ updated /= 0)
          => (pc \in {"exhausted", "raised"}
              /\ (pc = "raised" => err = "SubstitutionError"))
    /\ pc = "exhausted" => (passes = IterationCap /\ updated /= 0)

C2_Witness == pc = "raised" /\ err = "SubstitutionError" /\ passes = IterationCap

C4_IdempotentAtFixedPoint ==
    /\ (pc = "done" /\ passes = 1)
          => SameLeafValues(callHeap, arg, heap, result.ns)
    /\ (calls >= 2 /\ arg = prev.ns) =>
          /\ updated = 0
          /\ pc /= "raised"
          /\ pc = "done" => /\ result.unresolved = prev.unresolved
                            /\ SameLeafValues(callHeap, arg, heap, result.ns)

EscapeLiterals == {<<"b">>, <<"c">>, <<"z">>}

HasEscape(v, lit) == v.t = "str" /\ ContainsSeq(v.s, Esc(lit))

\* the escape of lit has survived the passes so far (escaped), or has been
\* made literal by the final pass (unescaped)
EscapeKept(v, lit) ==
    /\ IsStr(v)
    /\ IF pc = "done"
       THEN ContainsSeq(v.s, <<LB>> \o lit \o <<RB>>) /\ ~ContainsSeq(v.s, Esc(lit))
       ELSE ContainsSeq(v.s, Esc(lit))

\* C5: an escape {{lit}} written in an entry, or carried into an entry by a
\* reference to the entry that holds it, is never read as a reference: it
\* stays {{lit}} through every pass and is {lit} in the result, after one
\* pass or several.
C5_EscapeRoundTrip ==
    (calls = 1 /\ pc \in {"loop", "finalize", "done"} /\ passes >= 1) =>
        \A l \in MutableLeaves : \A lit \in EscapeLiterals :
            /\ HasEscape(layout.tpl[l], lit) => EscapeKept(LeafNow(l), lit)
            /\ \A t \in Leaves :
                  ( /\ layout.tpl[l] = StrV(Ref(PathOf(t)))
                    /\ HasEscape(layout.tpl[t], lit)
                    /\ pc /= "loop" )
                  => EscapeKept(LeafNow(l), lit)

C5_Witness ==
    /\ pc = "done" /\ calls = 1 /\ passes >= 3
    /\ HasEscape(layout.tpl[<<Root, "a">>], <<"b">>)
    /\ LeafResult(<<Root, "a">>) = StrV(<<LB, "b", RB, "w", "t">>)
    /\ LeafResult(<<NodeF, "c">>) = StrV(<<LB, "z", RB>>)

ForgivenNames == {<<"z">>, <<"y">>}

\* C6: when a template that references a name missing from the forgiving
\* node h has been resolved, the reference has become "(name)" and the path
\* f.h.name is exactly once in the forgiven list the call returns.
C6_ForgivenListedOnce ==
    (pc = "done" /\ calls = 1) =>
        \A l \in MutableLeaves : \A m \in ForgivenNames :
            ( /\ P3("f", "h", m[1]) \in DirectRefs(layout, l)
              /\ ForgivenPath(layout, P3("f", "h", m[1]))
              /\ IsStr(LeafResult(l)) )
            => /\ ContainsSeq(LeafResult(l).s, <<"(">> \o m \o <<")">>)
               /\ Count(result.forgivens, P3("f", "h", m[1])) = 1

NoBraces(h, r) ==
    \A l \in MutableLeaves :
        LeafVal(h, r, l).t = "str" => ~Contains(LeafVal(h, r, l).s, LB)

\* C8: a call on a namespace none of whose templates holds a reference any
\* more looks nothing up, so the forgiven list it returns is empty.
C8_ForgivensCleared ==
    (pc = "done" /\ calls >= 2 /\ NoBraces(callHeap, arg))
        => result.forgivens = <<>>

\* C9: the entries of the immutable node x keep, through every call, the
\* values they had before it, references and escapes included.
C9_ImmutableUntouched ==
    \A l \in Leaves \ MutableLeaves :
        /\ LeafNow(l) = LeafBefore(l)
        /\ pc = "done" => LeafResult(l) = LeafBefore(l)
        /\ LeafVal(heap, arg, l) = LeafBefore(l)
        /\ LeafBefore(l) = layout.tpl[l]

C9_Witness ==
    /\ pc = "done" /\ calls = 1
    /\ layout.tpl[<<NodeF, "a">>] = StrV(Ref(P2("x", "b")))
    /\ layout.tpl[<<NodeF, "c">>] = StrV(Ref(P2("x", "c")))
    /\ LeafResult(<<NodeF, "a">>) = StrV(<<"w", "t">>)
    /\ LeafResult(<<NodeF, "c">>) = StrV(<<LB, "z", RB>>)
    /\ LeafResult(<<NodeX, "b">>) = StrV(Ref(<<"b">>) \o <<"t">>)
    /\ LeafResult(<<NodeX, "c">>) = StrV(Esc(<<"z">>))

\* the call on the namespace built without its bad entries
Companion == SelfSubstitute(Build(WithoutLeaves(layout, BadLeaves(layout))), Root)

\* C7: a reference to a name missing under a strict node makes the entry
\* that holds it an exception value and nothing more: the call fails only
\* if it fails without that entry too, every entry that does not depend on
\* it gets the value it gets without it, a pass leaves an exception value
\* as it is, and the unresolved count returned is the number of exception
\* values in the result.
C7_StrictMissingStaysLocal ==
    /\ pc = "loop" =>
          \A l \in MutableLeaves :
              IsExc(LeafNow(l)) =>
                  LET r == Substitute(heap, ns, 0)
                  IN  LeafVal(r.heap, r.out, l) = LeafNow(l)
    /\ pc = "done" =>
          result.unresolved
              = Cardinality({l \in MutableLeaves : IsExc(LeafResult(l))})
    /\ (calls = 1 /\ BadLeaves(layout) /= {}) =>
          /\ pc \in {"raised", "exhausted"} => Companion.status = "raised"
          /\ pc = "done" =>
                /\ \A l \in BadLeaves(layout) : IsExc(LeafResult(l))
                /\ Companion.status = "done"
                /\ \A l \in Leaves :
                      Unrelated(layout, l)
                          => LeafResult(l) = LeafVal(Companion.heap, Companion.ns, l)

C7_Witness ==
    /\ pc = "done" /\ calls = 1 /\ passes >= 3
    /\ BadLeaves(layout) = {<<Root, "b">>, <<NodeH, "b">>}
    /\ LeafResult(<<Root, "b">>) = ExcV("AttributeError", <<"z">>)
    /\ LeafResult(<<NodeH, "b">>) = ExcV("KeyError", <<"q">>)
    /\ result.unresolved = 2
    /\ Unrelated(layout, <<Root, "a">>)
    /\ LeafResult(<<Root, "a">>) = StrV(<<LB, "b", RB, LB, "z", RB>>)


-----------------------------------------------------------------------------
(* validate_parameters, called with subst=None *)

\* parameter values: None, str, int (by its decimal image), list, Unresolved
VNone == [k |-> "none", s |-> <<>>, items |-> <<>>]

VStr(s) == [k |-> "str", s |-> s, items |-> <<>>]

VInt(s) == [k |-> "int", s |-> s, items |-> <<>>]

VList(items) == [k |-> "list", s |-> <<>>, items |-> items]

Unresolved(value) == [k |-> "Unresolved", s |-> value, items |-> <<>>]

\* del d[name]
DelItem(d, name) ==
    [keys |-> SelectSeq(d.keys, LAMBDA n : n /= name),
     vals |-> [n \in (DOMAIN d.vals) \ {name} |-> d.vals[n]]]

RECURSIVE UpdateFrom(_, _, _)
\* dict.update: the entries of other, in its order, from its i-th key on
UpdateFrom(d, other, i) ==
    IF i > Len(other.keys) THEN d
    ELSE UpdateFrom(SetItem(d, other.keys[i], other.vals[other.keys[i]]), other, i + 1)

\* line 86: the entries of params that are not Unresolved
ConcreteOf(d) ==
    [keys |-> SelectSeq(d.keys, LAMBDA n : d.vals[n].k /= "Unresolved"),
     vals |-> [n \in {m \in DOMAIN d.vals : d.vals[m].k /= "Unresolved"} |-> d.vals[n]]]

\* line 87: the entries of params that are Unresolved
UnresolvedOf(d) ==
    [keys |-> SelectSeq(d.keys, LAMBDA n : d.vals[n].k = "Unresolved"),
     vals |-> [n \in {m \in DOMAIN d.vals : d.vals[m].k = "Unresolved"} |-> d.vals[n]]]

\* re.search("{[^{]", value): an opening brace followed by something else
IsTemplate(value) ==
    \E i \in 1..(Len(value) - 1) : value[i] = LB /\ value[i + 1] /= LB

\* the dtype strings that eval() accepts
ScalarFileTypes == {"File", "Directory", "MS"}

ListFileTypes == {"List[File]", "List[Directory]", "List[MS]"}

KnownDtypes == {"str", "int"} \cup ScalarFileTypes \cup ListFileTypes

\* the file system: two regular files, one directory
RegularFiles == {<<"f", "1">>, <<"f", "2">>}

Directories == {<<"d", "1">>}

isfile(path) == path.k = "str" /\ path.s \in RegularFiles

isdir(path) == path.k = "str" /\ path.s \in Directories

\* glob.glob: the existing paths a pattern matches, sorted
Glob(pattern) ==
    IF pattern = <<"f", "*">> THEN <<VStr(<<"f", "1">>), VStr(<<"f", "2">>)>>
    ELSE IF pattern \in RegularFiles \cup Directories THEN <<VStr(pattern)>>
    ELSE <<>>

Raise(what, names) == [what |-> what, names |-> names]

\* lines 80-83: the first key of params that no schema knows
UnknownNames(a) == SelectSeq(a.params.keys, LAMBDA n : ~HasKey(a.schemas, n))

RECURSIVE AddDefaults(_, _, _)
\* lines 91-96
AddDefaults(a, inp, i) ==
    IF i > Len(a.schemas.keys) THEN inp
    ELSE LET name == a.schemas.keys[i]
             schema == a.schemas.vals[name]
             inp1 == IF HasKey(inp, name) THEN inp
                     ELSE IF HasKey(a.defaults, name)
                          THEN SetItem(inp, name, a.defaults.vals[name])
                     ELSE IF schema.default /= VNone
                          THEN SetItem(inp, name, schema.default)
                     ELSE inp
         IN  AddDefaults(a, inp1, i + 1)

\* line 129
MovesToUnresolved(value) == value.k = "str" /\ IsTemplate(value.s)

RECURSIVE DeferTemplates(_, _, _, _)
\* lines 128-131, over the snapshot names of the keys of inputs
DeferTemplates(inp, unr, names, i) ==
    IF i > Len(names) THEN [inputs |-> inp, unresolved |-> unr]
    ELSE LET name == names[i]
             value == inp.vals[name]
         IN  IF MovesToUnresolved(value)
             THEN DeferTemplates(DelItem(inp, name),
                                 SetItem(unr, name, Unresolved(value.s)), names, i + 1)
             ELSE DeferTemplates(inp, unr, names, i + 1)

\* line 135
\* a required check that does not look at the unresolved dict
MissingRequiredConcreteOnly(a, inp, unr) ==
    SelectSeq(a.schemas.keys,
              LAMBDA n : a.schemas.vals[n].required /\ ~HasKey(inp, n))

MissingRequired(a, inp, unr) ==
    SelectSeq(a.schemas.keys,
              LAMBDA n : /\ a.schemas.vals[n].required
                         /\ ~HasKey(inp, n)
                         /\ ~HasKey(unr, n))

\* lines 143-148: the schemas of present inputs whose dtype does not evaluate
BadDtypes(a, inp) ==
    SelectSeq(a.schemas.keys,
              LAMBDA n : HasKey(inp, n) /\ a.schemas.vals[n].dtype \notin KnownDtypes)

\* line 184
EmptyMatchFails(schema, check_exist) == schema.required /\ check_exist

\* a scalar check that accepts any number of matches
AnyNumberOfMatches(files) == FALSE

\* line 192
TooManyMatches(files) == Len(files) > 1

RECURSIVE FileChecks(_, _, _, _)
\* lines 161-210, over the keys names of inputs
FileChecks(a, inp, names, i) ==
    IF i > Len(names) THEN [raised |-> FALSE, err |-> NoErr, inputs |-> inp]
    ELSE
    LET name == names[i]
        value == inp.vals[name]
        next(inp1) == FileChecks(a, inp1, names, i + 1)
        fail(what) == [raised |-> TRUE, err |-> Raise(what, <<name>>), inputs |-> inp]
    IN  IF ~HasKey(a.schemas, name) THEN next(inp)
        ELSE
        LET schema == a.schemas.vals[name]
            dtype == schema.dtype
            is_file == dtype \in ScalarFileTypes
            is_file_list == dtype \in ListFileTypes
            files == IF value.k = "str" THEN Glob(value.s) ELSE value.items
            allFiles == \A j \in 1..Len(files) : isfile(files[j])
            allDirs == \A j \in 1..Len(files) : isdir(files[j])
        IN  IF ~(is_file \/ is_file_list) THEN next(inp)
            ELSE IF value.k \notin {"str", "list"} THEN fail("invalid_type")
            ELSE IF files = <<>>
                 THEN IF EmptyMatchFails(schema, a.check_exist)
                      THEN fail("nothing_matches")
                      ELSE next(SetItem(inp, name,
                                        IF is_file_list THEN VList(<<>>) ELSE VStr(<<>>)))
            ELSE IF is_file
                 THEN IF TooManyMatches(files) THEN fail("multiple")
                      ELSE IF dtype = "File" /\ ~isfile(files[1]) THEN fail("not_file")
                      ELSE IF dtype /= "File" /\ ~isdir(files[1]) THEN fail("not_dir")
                      ELSE next(SetItem(inp, name, files[1]))
            ELSE IF dtype = "List[File]" /\ ~allFiles THEN fail("non_files")
            ELSE IF dtype /= "List[File]" /\ ~allDirs THEN fail("non_dirs")
            ELSE next(SetItem(inp, name, VList(files)))

Digits == {"0", "1", "2", "3", "4", "5", "6", "7", "8", "9"}

IsNumeral(s) == Len(s) > 0 /\ \A i \in 1..Len(s) : s[i] \in Digits

\* pydantic's validation of one field: does value fit dtype
Fits(dtype, value) ==
    IF dtype = "int" THEN value.k = "int" \/ (value.k = "str" /\ IsNumeral(value.s))
    ELSE IF dtype \in ListFileTypes
         THEN value.k = "list" /\ \A j \in 1..Len(value.items) : value.items[j].k = "str"
    ELSE value.k \in {"str", "int"}

\* pydantic's validation of one field: the value after coercion
Coerce(dtype, value) ==
    IF dtype = "int" THEN VInt(value.s)
    ELSE IF dtype \in ListFileTypes THEN value
    ELSE VStr(value.s)

\* line 214: the fields of the dataclass, in the order of the schemas
FieldNames(a, inp) == SelectSeq(a.schemas.keys, LAMBDA n : HasKey(inp, n))

\* lines 215-217: the fields pydantic rejects
InvalidFields(a, inp) ==
    SelectSeq(FieldNames(a, inp),
              LAMBDA n : ~Fits(a.schemas.vals[n].dtype, inp.vals[n]))

\* lines 214 and 219
ValidatedDict(a, inp) ==
    [keys |-> FieldNames(a, inp),
     vals |-> [n \in {FieldNames(a, inp)[i] : i \in 1..Len(FieldNames(a, inp))} |->
                 Coerce(a.schemas.vals[n].dtype, inp.vals[n])]]

\* a choices check that accepts every value
ChoiceNeverFails(schema, value) == FALSE

\* line 224
ChoiceFails(schema, value) ==
    /\ schema.choices /= <<>>
    /\ \A j \in 1..Len(schema.choices) : schema.choices[j] /= value

\* lines 222-225: the validated names whose value is not among the choices
BadChoices(a, val) ==
    SelectSeq(val.keys, LAMBDA n : ChoiceFails(a.schemas.vals[n], val.vals[n]))

(* the calls the validator is run on *)

Schema(dtype, required, default, choices) ==
    [dtype |-> dtype, required |-> required, default |-> default, choices |-> choices]

\* a dict with the keys of names whose value is not absent
NotGiven == [k |-> "absent", s |-> <<>>, items |-> <<>>]

DictOf(names, v) ==
    [keys |-> SelectSeq(names, LAMBDA n : v[n] /= NotGiven),
     vals |-> [n \in {names[i] : i \in 1..Len(names)} \ {m \in DOMAIN v : v[m] = NotGiven}
                 |-> v[n]]]

TplT == <<LB, "t", RB>>

BasicCalls ==
    { [params |-> DictOf(<<"p", "q", "u">>, [p |-> pp, q |-> pq, u |-> pu]),
       schemas |-> DictOf(<<"p", "q">>,
                          [p |-> Schema(pd[1], pr, pdef, pd[2]),
                           q |-> Schema("str", qr, VNone, <<>>)]),
       defaults |-> DictOf(<<"p", "q">>, [p |-> dp, q |-> dq]),
       check_unknowns |-> cu, check_required |-> cr, check_exist |-> TRUE] :
      pp \in {NotGiven, VStr(<<"a">>), VStr(<<"c">>), VStr(TplT), Unresolved(TplT),
              VStr(<<"5">>)},
      pq \in {NotGiven, VStr(<<"y">>)},
      pu \in {NotGiven, VStr(<<"z">>), Unresolved(TplT)},
      pd \in {<<"str", <<>>>>, <<"str", <<VStr(<<"a">>), VStr(<<"b">>)>>>>, <<"int", <<>>>>},
      pr \in BOOLEAN, qr \in BOOLEAN,
      pdef \in {VNone, VStr(<<"b">>)},
      dp \in {NotGiven, VStr(<<"x">>), VStr(TplT)},
      dq \in {NotGiven, VStr(<<"y">>)},
      cu \in BOOLEAN, cr \in BOOLEAN }

FileCalls ==
    { [params |-> DictOf(<<"p">>, [p |-> pp]),
       schemas |-> DictOf(<<"p">>, [p |-> Schema(pd, pr, VNone, <<>>)]),
       defaults |-> EmptyDict,
       check_unknowns |-> TRUE, check_required |-> cr, check_exist |-> ce] :
      pp \in {NotGiven, VStr(<<"f", "1">>), VStr(<<"f", "*">>), VStr(<<"d", "1">>),
              VStr(<<"n">>), VInt(<<"5">>), Unresolved(TplT),
              VList(<<VStr(<<"f", "1">>), VStr(<<"f", "2">>)>>),
              VList(<<VStr(<<"f", "1">>), VStr(<<"d", "1">>)>>),
              VList(<<VStr(<<"d", "1">>)>>),
              VList(<<>>)},
      pd \in {"File", "Directory", "List[File]", "List[Directory]", "bogus"},
      pr \in BOOLEAN, cr \in BOOLEAN, ce \in BOOLEAN }

TplU == <<LB, "u", RB>>

\* calls whose parameter p is supplied as Unresolved, with the defaults varied
DeferredCalls ==
    { [params |-> DictOf(<<"p">>, [p |-> Unresolved(TplT)]),
       schemas |-> DictOf(<<"p">>, [p |-> Schema(pd[1], pr, pdef, pd[2])]),
       defaults |-> DictOf(<<"p">>, [p |-> dp]),
       check_unknowns |-> TRUE, check_required |-> cr, check_exist |-> ce] :
      pd \in {<<"str", <<>>>>, <<"str", <<VStr(<<"a">>), VStr(<<"b">>)>>>>,
              <<"int", <<>>>>, <<"File", <<>>>>},
      pr \in BOOLEAN,
      pdef \in {VNone, VStr(<<"b">>), VStr(TplU)},
      dp \in {NotGiven, VStr(<<"x">>), VStr(<<"a">>), VStr(TplU)},
      cr \in BOOLEAN, ce \in BOOLEAN }

Calls == BasicCalls \cup FileCalls \cup DeferredCalls

SubstitutionIdle ==
    /\ layout = [tpl |-> <<>>, rev |-> FALSE, bare |-> TRUE]
    /\ heap = <<>>
    /\ callHeap = <<>>
    /\ arg = 0
    /\ ns = 0
    /\ pc = "idle"
    /\ passes = 0
    /\ updated = 0
    /\ unresolved = 0
    /\ err = "none"
    /\ result = NoResult
    /\ prev = NoResult
    /\ calls = 0

InitV ==
    /\ SubstitutionIdle
    /\ MultireplaceIdle
    /\ vargs \in Calls
    /\ vpc = "unknowns"
    /\ inputs = EmptyDict
    /\ vunres = EmptyDict
    /\ validated = EmptyDict
    /\ verr = NoErr

\* lines 80-83
CheckUnknowns ==
    /\ vpc = "unknowns"
    /\ IF vargs.check_unknowns /\ UnknownNames(vargs) /= <<>>
       THEN /\ vpc' = "raised"
            /\ verr' = Raise("unknown", <<UnknownNames(vargs)[1]>>)
       ELSE /\ vpc' = "split"
            /\ verr' = verr
    /\ UNCHANGED <<vargs, inputs, vunres, validated>>
    /\ UNCHANGED svars
    /\ UNCHANGED mvars

\* lines 86-96 and 127-131
SplitAndDefault ==
    /\ vpc = "split"
    /\ LET inputs0 == ConcreteOf(vargs.params)
           unresolved0 == UnresolvedOf(vargs.params)
           inputs1 == AddDefaults(vargs, inputs0, 1)
           r == DeferTemplates(inputs1, unresolved0, inputs1.keys, 1)
       IN  /\ inputs' = r.inputs
           /\ vunres' = r.unresolved
    /\ vpc' = "required"
    /\ UNCHANGED <<vargs, validated, verr>>
    /\ UNCHANGED svars
    /\ UNCHANGED mvars

\* lines 134-137
CheckRequired ==
    /\ vpc = "required"
    /\ IF vargs.check_required /\ MissingRequired(vargs, inputs, vunres) /= <<>>
       THEN /\ vpc' = "raised"
            /\ verr' = Raise("missing", MissingRequired(vargs, inputs, vunres))
       ELSE /\ vpc' = "dtypes"
            /\ verr' = verr
    /\ UNCHANGED <<vargs, inputs, vunres, validated>>
    /\ UNCHANGED svars
    /\ UNCHANGED mvars

\* lines 140-158
BuildTypes ==
    /\ vpc = "dtypes"
    /\ IF BadDtypes(vargs, inputs) /= <<>>
       THEN /\ vpc' = "raised"
            /\ verr' = Raise("dtype", <<BadDtypes(vargs, inputs)[1]>>)
       ELSE /\ vpc' = "files"
            /\ verr' = verr
    /\ UNCHANGED <<vargs, inputs, vunres, validated>>
    /\ UNCHANGED svars
    /\ UNCHANGED mvars

\* lines 161-210
CheckFiles ==
    /\ vpc = "files"
    /\ LET r == FileChecks(vargs, inputs, inputs.keys, 1)
       IN  IF r.raised
           THEN /\ vpc' = "raised"
                /\ verr' = r.err
                /\ inputs' = inputs
           ELSE /\ vpc' = "validate"
                /\ verr' = verr
                /\ inputs' = r.inputs
    /\ UNCHANGED <<vargs, vunres, validated>>
    /\ UNCHANGED svars
    /\ UNCHANGED mvars

\* lines 213-219
Validate ==
    /\ vpc = "validate"
    /\ IF InvalidFields(vargs, inputs) /= <<>>
       THEN /\ vpc' = "raised"
            /\ verr' = Raise("validation", InvalidFields(vargs, inputs))
            /\ validated' = validated
       ELSE /\ vpc' = "choices"
            /\ verr' = verr
            /\ validated' = ValidatedDict(vargs, inputs)
    /\ UNCHANGED <<vargs, inputs, vunres>>
    /\ UNCHANGED svars
    /\ UNCHANGED mvars

\* lines 222-234
CheckChoicesAndReturn ==
    /\ vpc = "choices"
    /\ IF BadChoices(vargs, validated) /= <<>>
       THEN /\ vpc' = "raised"
            /\ verr' = Raise("choice", <<BadChoices(vargs, validated)[1]>>)
            /\ validated' = validated
       ELSE /\ vpc' = "returned"
            /\ verr' = verr
            /\ validated' = UpdateFrom(validated, vunres, 1)
    /\ UNCHANGED <<vargs, inputs, vunres>>
    /\ UNCHANGED svars
    /\ UNCHANGED mvars

NextV ==
    \/ CheckUnknowns
    \/ SplitAndDefault
    \/ CheckRequired
    \/ BuildTypes
    \/ CheckFiles
    \/ Validate
    \/ CheckChoicesAndReturn

SpecV == InitV /\ [][NextV]_vars


-----------------------------------------------------------------------------
(* validate_parameters as one function, for runs on other arguments *)

\* lines 52-234 with subst=None: the exception raised or the dict returned
ValidateParameters(a) ==
    LET failed(e) == [status |-> "raised", err |-> e, validated |-> EmptyDict]
        inputs0 == ConcreteOf(a.params)
        unresolved0 == UnresolvedOf(a.params)
        inputs1 == AddDefaults(a, inputs0, 1)
        d == DeferTemplates(inputs1, unresolved0, inputs1.keys, 1)
        missing == MissingRequired(a, d.inputs, d.unresolved)
        f == FileChecks(a, d.inputs, d.inputs.keys, 1)
        val == ValidatedDict(a, f.inputs)
    IN  IF a.check_unknowns /\ UnknownNames(a) /= <<>>
        THEN failed(Raise("unknown", <<UnknownNames(a)[1]>>))
        ELSE IF a.check_required /\ missing /= <<>>
        THEN failed(Raise("missing", missing))
        ELSE IF BadDtypes(a, d.inputs) /= <<>>
        THEN failed(Raise("dtype", <<BadDtypes(a, d.inputs)[1]>>))
        ELSE IF f.raised THEN failed(f.err)
        ELSE IF InvalidFields(a, f.inputs) /= <<>>
        THEN failed(Raise("validation", InvalidFields(a, f.inputs)))
        ELSE IF BadChoices(a, val) /= <<>>
        THEN failed(Raise("choice", <<BadChoices(a, val)[1]>>))
        ELSE [status |-> "returned", err |-> NoErr,
              validated |-> UpdateFrom(val, d.unresolved, 1)]

-----------------------------------------------------------------------------
(* Claims about validate_parameters *)

\* the call has a value for name: from the caller (concrete or Unresolved),
\* from the defaults map, or from the schema's own default
Supplied(a, name) ==
    \/ HasKey(a.params, name)
    \/ HasKey(a.defaults, name)
    \/ a.schemas.vals[name].default /= VNone

\* the required schemas the call has no value for, in schema order
Unsupplied(a) ==
    SelectSeq(a.schemas.keys,
              LAMBDA n : a.schemas.vals[n].required /\ ~Supplied(a, n))

\* the same call with name supplied through the defaults map
WithDefault(a, name, value) == [a EXCEPT !.defaults = SetItem(@, name, value)]

\* every schema is a str without choices and the caller's values are strings
AllPlainStr(a) ==
    /\ \A n \in DOMAIN a.schemas.vals :
          a.schemas.vals[n].dtype = "str" /\ a.schemas.vals[n].choices = <<>>
    /\ \A n \in DOMAIN a.params.vals : a.params.vals[n].k \in {"str", "Unresolved"}
    /\ \A n \in DOMAIN a.defaults.vals : a.defaults.vals[n].k = "str"

PastRequiredCheck == vpc \in {"dtypes", "files", "validate", "choices", "returned"}

PlainX == VStr(<<"x">>)

ReturnedKeys == {validated.keys[i] : i \in 1..Len(validated.keys)}

\* C11: with check_unknowns a call whose params hold a key that no schema
\* knows raises the unknown-parameter error naming the first such key, and
\* the error is raised in no other case; when the call returns, the returned
\* dict holds no key that is absent from the schemas, whatever value the
\* caller gave that key.
C11_UnknownRejectedOrDropped ==
    /\ (vargs.check_unknowns /\ UnknownNames(vargs) /= <<>> /\ vpc /= "unknowns") =>
          /\ vpc = "raised"
          /\ verr = Raise("unknown", <<UnknownNames(vargs)[1]>>)
    /\ verr.what = "unknown" =>
          /\ vargs.check_unknowns
          /\ HasKey(vargs.params, verr.names[1])
          /\ ~HasKey(vargs.schemas, verr.names[1])
    /\ vpc = "returned" => \A name \in ReturnedKeys : HasKey(vargs.schemas, name)

\* an unknown key given as Unresolved comes back in the returned dict
C11_Witness ==
    /\ vpc = "returned"
    /\ ~vargs.check_unknowns
    /\ HasKey(vargs.params, "u")
    /\ vargs.params.vals["u"].k = "Unresolved"
    /\ "u" \in ReturnedKeys


\* the names the caller supplied as Unresolved
SuppliedUnresolved(a) ==
    {n \in DOMAIN a.params.vals : a.params.vals[n].k = "Unresolved"}

\* C12: when validate_parameters returns, every parameter the caller supplied
\* as Unresolved maps in the returned dict to that same Unresolved value.
C12_UnresolvedPassThrough ==
    vpc = "returned" =>
        \A name \in SuppliedUnresolved(vargs) :
            /\ name \in ReturnedKeys
            /\ validated.vals[name] = vargs.params.vals[name]

\* the caller's Unresolved("{t}") is returned as Unresolved("{u}"), the
\* template of the default
C12_Witness ==
    /\ vpc = "returned"
    /\ HasKey(vargs.params, "p")
    /\ vargs.params.vals["p"] = Unresolved(TplT)
    /\ validated.vals["p"] = Unresolved(TplU)


\* the concrete inputs as they reach the file checks (lines 86-131)
InputsOf(a) ==
    DeferTemplates(AddDefaults(a, ConcreteOf(a.params), 1), UnresolvedOf(a.params),
                   AddDefaults(a, ConcreteOf(a.params), 1).keys, 1).inputs

\* the paths a str value globs to, or the paths of a list value
MatchesOf(value) == IF value.k = "str" THEN Glob(value.s) ELSE value.items

\* the parameters of scalar file type that have a str or list value
ScalarFileParams(a) ==
    {n \in DOMAIN a.schemas.vals :
        /\ a.schemas.vals[n].dtype \in ScalarFileTypes
        /\ HasKey(InputsOf(a), n)
        /\ InputsOf(a).vals[n].k \in {"str", "list"}}

\* the path is an existing entry of the kind the dtype declares
OfDeclaredKind(dtype, path) == IF dtype = "File" THEN isfile(path) ELSE isdir(path)

\* the errors of the steps that come before the file checks
EarlierErrors == {"unknown", "missing", "dtype"}

AfterFileChecks == vpc \in {"validate", "choices", "returned"}

\* C13: for a parameter of scalar file or directory type whose glob, or
\* supplied list, has more than one match, the call never gets past the file
\* checks and the error it raises there is the multiple-matches error naming
\* the parameter; with exactly one match that is an existing entry of the
\* declared kind the parameter passes the file checks, its value becomes the
\* matched path, and a returning call returns that path.
C13_ScalarFileCardinality ==
    \A name \in ScalarFileParams(vargs) :
        LET files == MatchesOf(InputsOf(vargs).vals[name])
            dtype == vargs.schemas.vals[name].dtype
        IN  /\ Len(files) > 1 =>
                  /\ ~AfterFileChecks
                  /\ (vpc = "raised" /\ verr.what \notin EarlierErrors) =>
                        verr = Raise("multiple", <<name>>)
            /\ (Len(files) = 1 /\ OfDeclaredKind(dtype, files[1])) =>
                  /\ (vpc = "raised" /\ verr.what \notin EarlierErrors) =>
                        verr.names /= <<name>>
                  /\ AfterFileChecks => inputs.vals[name] = files[1]
                  /\ (vpc = "returned" /\ name \notin SuppliedUnresolved(vargs)) =>
                        validated.vals[name] = files[1]

\* the glob "f*" of a File parameter matches f1 and f2: multiple matches
C13_Witness ==
    /\ vpc = "raised"
    /\ verr = Raise("multiple", <<"p">>)
    /\ vargs.schemas.vals["p"].dtype = "File"
    /\ HasKey(vargs.params, "p")
    /\ vargs.params.vals["p"] = VStr(<<"f", "*">>)


\* value is one of the choices
IsChoice(choices, value) == \E j \in 1..Len(choices) : choices[j] = value

\* C14: a call returns only if every returned value that is not Unresolved
\* and whose schema declares choices is one of them; the invalid-choice error
\* names a parameter with choices whose validated value is none of them.
C14_ChoicesEnforced ==
    /\ vpc = "returned" =>
          \A name \in ReturnedKeys :
             ( /\ HasKey(vargs.schemas, name)
               /\ vargs.schemas.vals[name].choices /= <<>>
               /\ validated.vals[name].k /= "Unresolved" )
             => IsChoice(vargs.schemas.vals[name].choices, validated.vals[name])
    /\ verr.what = "choice" =>
          /\ vpc = "raised"
          /\ Len(verr.names) = 1
          /\ HasKey(validated, verr.names[1])
          /\ vargs.schemas.vals[verr.names[1]].choices /= <<>>
          /\ ~IsChoice(vargs.schemas.vals[verr.names[1]].choices,
                       validated.vals[verr.names[1]])

\* choices a, b and the value "c": the invalid-choice error names p
C14_Witness ==
    /\ vpc = "raised"
    /\ verr = Raise("choice", <<"p">>)
    /\ HasKey(vargs.params, "p")
    /\ vargs.params.vals["p"] = VStr(<<"c">>)
    /\ validated.vals["p"] = VStr(<<"c">>)
    /\ vargs.schemas.vals["p"].choices = <<VStr(<<"a">>), VStr(<<"b">>)>>


-----------------------------------------------------------------------------
(* multireplace, called on its own *)

\* the longest string multireplace is called on
MaxStringLen == 4

Alphabet == {"a", "b", "c"}

RECURSIVE StringsOfLen(_)
StringsOfLen(n) ==
    IF n = 0 THEN {<<>>}
    ELSE {Append(t, c) : t \in StringsOfLen(n - 1), c \in Alphabet}

Strings == UNION {StringsOfLen(n) : n \in 0..MaxStringLen}

\* the replacement maps multireplace is called with, as sets of <<old, new>>:
\* a key that is a prefix of another, a swap, a value that holds a key,
\* a deletion, a value that holds its own key, two keys that overlap
ReplacementMaps ==
    { { << <<"a", "b">>, <<"X">> >>, << <<"a", "b", "c">>, <<"Y">> >> },
      { << <<"a">>, <<"b">> >>, << <<"b">>, <<"a">> >> },
      { << <<"a">>, <<"a", "b">> >>, << <<"a", "b">>, <<"c">> >> },
      { << <<"b">>, <<>> >>, << <<"b", "c">>, <<"X">> >> },
      { << <<"a">>, <<"a", "a">> >> },
      { << <<"a", "b">>, <<"X">> >>, << <<"b", "c">>, <<"Y">> >> } }

InitM ==
    /\ SubstitutionIdle
    /\ ValidatorIdle
    /\ mstring \in Strings
    /\ mreplacements \in ReplacementMaps
    /\ mpc = "call"
    /\ mresult = <<>>

\* lines 11-46, with ignore_case=False
CallMultireplace ==
    /\ mpc = "call"
    /\ mresult' = multireplace(mstring, mreplacements)
    /\ mpc' = "returned"
    /\ UNCHANGED <<mstring, mreplacements>>
    /\ UNCHANGED svars
    /\ UNCHANGED vvars

NextM == CallMultireplace

SpecM == InitM /\ [][NextM]_vars

\* the keys that match the text at position i
KeysAt(text, map, i) == {r \in map : IsPrefixAt(text, i, r[1])}

RECURSIVE Scan(_, _, _)
\* one traversal from position i: where keys match, the value of the longest
\* of them is written and the traversal goes on behind the key; elsewhere the
\* character is copied
Scan(text, map, i) ==
    IF i > Len(text) THEN <<>>
    ELSE IF KeysAt(text, map, i) = {} THEN <<text[i]>> \o Scan(text, map, i + 1)
    ELSE LET r == CHOOSE r \in KeysAt(text, map, i) :
                    \A q \in KeysAt(text, map, i) : Len(q[1]) <= Len(r[1])
         IN  r[2] \o Scan(text, map, i + Len(r[1]))

AbToXAbcToY == { << <<"a", "b">>, <<"X">> >>, << <<"a", "b", "c">>, <<"Y">> >> }

\* C15: what multireplace returns is the text of one left-to-right traversal
\* in which, at each position where keys match, the longest matching key is
\* replaced by its value, the traversal resumes behind the key (no overlap)
\* and the inserted value is not scanned again; "abc" with ab -> X and
\* abc -> Y gives "Y".
C15_LongestMatchSinglePass ==
    mpc = "returned" =>
        /\ mresult = Scan(mstring, mreplacements, 1)
        /\ (mstring = <<"a", "b", "c">> /\ mreplacements = AbToXAbcToY)
              => mresult = <<"Y">>
        /\ (\A i \in 1..Len(mstring) : KeysAt(mstring, mreplacements, i) = {})
              => mresult = mstring

\* "abca" with a -> ab and ab -> c: the longest key wins at position 1 and
\* the inserted "ab" of the last a is not replaced again
C15_Witness ==
    /\ mpc = "returned"
    /\ mstring = <<"a", "b", "c", "a">>
    /\ mreplacements = { << <<"a">>, <<"a", "b">> >>, << <<"a", "b">>, <<"c">> >> }
    /\ mresult = <<"c", "c", "a", "b">>


\* the parameters of file type, scalar or list, that have a str or list value
FileParams(a) ==
    {n \in DOMAIN a.schemas.vals :
        /\ a.schemas.vals[n].dtype \in ScalarFileTypes \cup ListFileTypes
        /\ HasKey(InputsOf(a), n)
        /\ InputsOf(a).vals[n].k \in {"str", "list"}}

\* the value an empty match set is coerced to
EmptyValue(dtype) == IF dtype \in ListFileTypes THEN VList(<<>>) ELSE VStr(<<>>)

\* C16: for a parameter of file type whose value matches no path, a call
\* with check_exist never gets past the file checks and the error it raises
\* there is the nothing-matches error naming the parameter, whether or not
\* the schema is marked required; a call without check_exist passes the file
\* checks with the value coerced to an empty list or an empty string.
C16_EmptyMatchNeedsExistence ==
    \A name \in FileParams(vargs) :
        MatchesOf(InputsOf(vargs).vals[name]) = <<>> =>
            /\ vargs.check_exist =>
                  /\ ~AfterFileChecks
                  /\ (vpc = "raised" /\ verr.what \notin EarlierErrors) =>
                        verr = Raise("nothing_matches", <<name>>)
            /\ (~vargs.check_exist /\ AfterFileChecks) =>
                  inputs.vals[name] = EmptyValue(vargs.schemas.vals[name].dtype)

\* check_exist is set, the schema is not marked required, "n" matches
\* nothing, and the call returns the empty string
C16_Witness ==
    /\ vpc = "returned"
    /\ vargs.check_exist
    /\ HasKey(vargs.schemas, "p")
    /\ vargs.schemas.vals["p"].dtype = "File"
    /\ ~vargs.schemas.vals["p"].required
    /\ HasKey(vargs.params, "p")
    /\ vargs.params.vals["p"] = VStr(<<"n">>)
    /\ validated.vals["p"] = VStr(<<>>)


-----------------------------------------------------------------------------
(* Claims about the input of self_substitute *)

\* the namespace objects reachable from the argument when the call started
InputObjects == {NodeIn(callHeap, arg, n) : n \in {Root, NodeF, NodeH, NodeX}} \ {0}

\* C17: when a call of self_substitute has returned or raised, the namespace
\* passed in and every namespace reachable from it has the keys, in their
\* order, and the value of each key that it had when the call started; and
\* the returned namespace is the object passed in when no entry value differs
\* from the input.
C17_InputUntouched ==
    pc \in {"done", "raised"} =>
        /\ \A id \in InputObjects :
              /\ heap[id].keys = callHeap[id].keys
              /\ heap[id].vals = callHeap[id].vals
        /\ (pc = "done" /\ SameLeafValues(callHeap, arg, heap, result.ns)) =>
              result.ns = arg

\* after the first call the namespace passed in holds an entry _forgave_
\* that it did not hold before
C17_Witness ==
    /\ pc = "done"
    /\ calls = 1
    /\ HasKey(heap[arg], "_forgave_")
    /\ ~HasKey(callHeap[arg], "_forgave_")


-----------------------------------------------------------------------------
(* Claims about defaults of parameters supplied as Unresolved *)

\* the same call with no default for name, in the defaults map or the schema
WithoutDefault(a, name) ==
    [a EXCEPT !.defaults = DelItem(@, name),
              !.schemas.vals[name].default = VNone]

\* how the call ended: the exception raised or the dict returned
Outcome ==
    [status |-> vpc, err |-> verr,
     validated |-> IF vpc = "returned" THEN validated ELSE EmptyDict]

\* C18: when a call has ended, for every parameter the caller supplied as
\* Unresolved the call without that parameter's defaults (defaults map entry
\* and schema default) ends the same way: the same error or the same
\* returned dict.
C18_DefaultOfUnresolvedIgnored ==
    vpc \in {"returned", "raised"} =>
        \A name \in SuppliedUnresolved(vargs) :
            HasKey(vargs.schemas, name) =>
                ValidateParameters(WithoutDefault(vargs, name)) = Outcome

\* p is supplied as Unresolved, its default "x" is none of the choices, and
\* the call fails with the invalid-choice error; without the default it returns
C18_Witness ==
    /\ vpc = "raised"
    /\ verr = Raise("choice", <<"p">>)
    /\ HasKey(vargs.params, "p")
    /\ vargs.params.vals["p"].k = "Unresolved"
    /\ HasKey(vargs.defaults, "p")
    /\ ValidateParameters(WithoutDefault(vargs, "p")).status = "returned"

====
